---- MODULE Spec2Model ----
(***************************************************************************)
(* The History page (src/pages/History.tsx): date-range validation, the    *)
(* asynchronous history fetch and its transformation into twelve aligned   *)
(* channels, the image preload started by a click on a data point, and     *)
(* the CSV export.                                                         *)
(*                                                                         *)
(* Units.  A calendar-date string "YYYY-MM-DD" is its day number since     *)
(* 1970-01-01; an instant (Date.getTime()) is counted in minutes since the *)
(* epoch; a sensor scalar is a fixed-point number in thousandths and a     *)
(* value rounded by toFixed(2) is a number of hundredths.                  *)
(***************************************************************************)
EXTENDS Integers, Sequences, FiniteSets

\* ------------------------------------------------------------------ bounds
\* Fetches issued in one session.
MaxSubmits == 2
\* Clicks on data points in one session.
MaxSelects == 2
\* Length of the reading list of one response.
MaxReadings == 2

\* --------------------------------------------------------------- constants
MinutesPerDay == 1440
\* new Date("2024-11-15"), as a day number.
EarliestDay == 20042
\* CST_OFFSET = -6 * 60 (minutes); kept as its magnitude.
CstBehindMinutes == 360
\* The viewer's zone is this many minutes behind UTC (Date parses a string
\* without a zone marker as local wall-clock time).
ViewerBehindMinutes == 300

\* selectedImage when no image is selected.
Null == "null"
\* An absent image_url.
Undefined == "undefined"
\* historicalData is NoData (null) or <<the HistoricalData>>.
NoData == << >>
\* download is NoDownload or <<the file>>.
NoDownload == << >>

\* ------------------------------------------------------------------- dates
\* new Date("YYYY-MM-DD"): a date-only string is UTC midnight of that day.
ParseDate(day) == day * MinutesPerDay

\* d.toISOString().split("T")[0]: the UTC calendar date of an instant.
ToISODate(t) == t \div MinutesPerDay

EARLIEST_DATE == ParseDate(EarliestDay)

\* CST_OFFSET * 60 * 1000, in minutes.
CST_OFFSET == 0 - CstBehindMinutes

Max(a, b) == IF a >= b THEN a ELSE b

\* The values the two date inputs can be given.
Dates == {EarliestDay - 1, EarliestDay, EarliestDay + 1}

\* The instants at which the clock (new Date()) is read: noon UTC of the day
\* before EARLIEST_DATE, 02:00 UTC of EARLIEST_DATE (still the evening before
\* in UTC-6) and noon UTC of the day after.
Instants ==
    {ParseDate(EarliestDay - 1) + 720, ParseDate(EarliestDay) + 120,
     ParseDate(EarliestDay + 1) + 720}

\* useState initialiser of startDate.
InitialStartDate(mount) ==
    LET weekAgo == mount - 7 * MinutesPerDay
        cstDate == weekAgo + CST_OFFSET
        minDate == Max(EARLIEST_DATE, cstDate)
    IN  ToISODate(minDate)

\* useState initialiser of endDate.
InitialEndDate(mount) ==
    LET cstDate == mount + CST_OFFSET
    IN  ToISODate(cstDate)

\* ---------------------------------------------------------------- readings
\* x.toFixed(2) read back by parseFloat: thousandths to hundredths, half
\* away from zero.
Round2(x) ==
    IF x >= 0 THEN (x + 5) \div 10 ELSE 0 - ((5 - x) \div 10)

\* A timestamp string is <<wall-clock minutes, zone marker>>.
\* d.timestamp.slice(0, -1) drops the last character.
SliceLast(ts) == SubSeq(ts, 1, Len(ts) - 1)

\* new Date(string).getTime(): with the marker the wall clock is UTC,
\* without it the wall clock is the viewer's local time.
ParseTimestamp(ts) ==
    IF Len(ts) = 2 /\ ts[2] = "Z" THEN ts[1] ELSE ts[1] + ViewerBehindMinutes

\* d.image_url || ""
OrEmpty(u) == IF u = Undefined \/ u = "" THEN "" ELSE u

\* The records (LiveData) the history API can return.
Reading(i) ==
    [timestamp |-> <<ParseDate(EarliestDay) + 60 * i, "Z">>,
     temperature_c |-> 21004 + i,
     humidity |-> 45005 + 10 * i,
     pressure |-> 1013250 - i,
     ambientweatherwindmaxspeed |-> 12345 * i,
     wind_speed |-> 3995 + i,
     wind_direction |-> 180000 + 1000 * i,
     ambientweathertemp |-> 4 - 20 * i,
     ambientweatherhumidity |-> 50000 + i,
     ambientweatherrain |-> i,
     ambientweatheruv |-> 996 * i,
     ambientweatheruvi |-> 2000 + 5 * i,
     ambientweatherlightlux |-> 126582 * i,
     image_url |-> CASE i = 1 -> "img1.jpg"
                     [] i = 2 -> Undefined
                     [] OTHER -> "img2.jpg"]

ReadingIds == 1 .. 3

RECURSIVE AscendingLists(_, _)
\* The reading lists of length at most n whose ids are above lo, in
\* chronological order.
AscendingLists(lo, n) ==
    IF n = 0 THEN {<< >>}
    ELSE {<< >>} \cup
         UNION {{<<Reading(i)>> \o rest : rest \in AscendingLists(i, n - 1)} :
                i \in {j \in ReadingIds : j > lo}}

Responses == AscendingLists(0, MaxReadings)

\* One channel of transformedData: response.data.map(d => ({time, value,
\* image_url})).
Channel(data, field) ==
    [i \in 1 .. Len(data) |->
        [time |-> ParseTimestamp(SliceLast(data[i].timestamp)),
         value |-> Round2(data[i][field]),
         image_url |-> OrEmpty(data[i].image_url)]]

\* Transform with the humidity channel mapped over the list without its
\* first reading.
Transform_Misaligned(data) ==
    [temperature |-> Channel(data, "temperature_c"),
     humidity |-> Channel(SubSeq(data, 2, Len(data)), "humidity"),
     pressure |-> Channel(data, "pressure"),
     windMaxSpeed |-> Channel(data, "ambientweatherwindmaxspeed"),
     windSpeed |-> Channel(data, "wind_speed"),
     windDirection |-> Channel(data, "wind_direction"),
     ambientTemp |-> Channel(data, "ambientweathertemp"),
     ambientHumidity |-> Channel(data, "ambientweatherhumidity"),
     rain |-> Channel(data, "ambientweatherrain"),
     uv |-> Channel(data, "ambientweatheruv"),
     uvi |-> Channel(data, "ambientweatheruvi"),
     lightLux |-> Channel(data, "ambientweatherlightlux")]

\* transformedData of handleSubmit.
Transform(data) ==
    [temperature |-> Channel(data, "temperature_c"),
     humidity |-> Channel(data, "humidity"),
     pressure |-> Channel(data, "pressure"),
     windMaxSpeed |-> Channel(data, "ambientweatherwindmaxspeed"),
     windSpeed |-> Channel(data, "wind_speed"),
     windDirection |-> Channel(data, "wind_direction"),
     ambientTemp |-> Channel(data, "ambientweathertemp"),
     ambientHumidity |-> Channel(data, "ambientweatherhumidity"),
     rain |-> Channel(data, "ambientweatherrain"),
     uv |-> Channel(data, "ambientweatheruv"),
     uvi |-> Channel(data, "ambientweatheruvi"),
     lightLux |-> Channel(data, "ambientweatherlightlux")]

Metrics ==
    {"temperature", "humidity", "pressure", "windMaxSpeed", "windSpeed",
     "windDirection", "ambientTemp", "ambientHumidity", "rain", "uv", "uvi",
     "lightLux"}

RECURSIVE FilterTruthy(_)
\* xs.filter(x => x): drops undefined and the empty string.
FilterTruthy(xs) ==
    IF xs = << >> THEN << >>
    ELSE IF OrEmpty(Head(xs)) = "" THEN FilterTruthy(Tail(xs))
         ELSE <<Head(xs)>> \o FilterTruthy(Tail(xs))

\* images of handleSubmit: response.data.filter(d => d.image_url)
\* .map(d => d.image_url), filtered once more by setImageUrls' argument.
Images(data) ==
    FilterTruthy(FilterTruthy([i \in 1 .. Len(data) |-> data[i].image_url]))

\* Transform and Images over the responses the API can give, evaluated once.
transformedData == [data \in Responses |-> Transform(data)]
imagesOf == [data \in Responses |-> Images(data)]

\* ------------------------------------------------------------------- state
VARIABLES
    startDate,      \* useState startDate
    endDate,        \* useState endDate
    error,          \* useState error
    isSameDay,      \* useState isSameDay
    selectedImage,  \* useState selectedImage (Null or a URL)
    imageUrls,      \* useState imageUrls
    historicalData, \* useState historicalData (NoData or <<HistoricalData>>)
    submits,        \* number of axios.get calls issued so far
    requests,       \* the axios.get calls awaiting their response: the
                    \* number of the call and the range in its URL
    dataFrom,       \* << >>, or <<the call whose response built
                    \* historicalData>>
    clicks,         \* number of handleDataPointClick calls so far
    loads,          \* the Images awaiting onload/onerror: the number of the
                    \* click that created each, and its src
    loaded,         \* the srcs whose onload has fired
    download        \* the file the latest step offered for download

vars ==
    <<startDate, endDate, error, isSameDay, selectedImage, imageUrls,
      historicalData, submits, requests, dataFrom, clicks, loads, loaded,
      download>>

Init ==
    \E mount \in Instants :
        /\ startDate = InitialStartDate(mount)
        /\ endDate = InitialEndDate(mount)
        /\ error = ""
        /\ isSameDay = FALSE
        /\ selectedImage = Null
        /\ imageUrls = << >>
        /\ historicalData = NoData
        /\ submits = 0
        /\ requests = {}
        /\ dataFrom = << >>
        /\ clicks = 0
        /\ loads = {}
        /\ loaded = {}
        /\ download = NoDownload

\* ---------------------------------------------------------- date inputs
\* onChange of the start date input.
SetStartDate(d) ==
    /\ d # startDate
    /\ startDate' = d
    /\ download' = NoDownload
    /\ UNCHANGED <<endDate, error, isSameDay, selectedImage, imageUrls,
                   historicalData, submits, requests, dataFrom, clicks,
                   loads, loaded>>

\* onChange of the end date input.
SetEndDate(d) ==
    /\ d # endDate
    /\ endDate' = d
    /\ download' = NoDownload
    /\ UNCHANGED <<startDate, error, isSameDay, selectedImage, imageUrls,
                   historicalData, submits, requests, dataFrom, clicks,
                   loads, loaded>>

\* ------------------------------------------------------------ handleSubmit
START_TOO_EARLY == "Start date cannot be earlier than EARLIEST_DATE"
END_IN_FUTURE == "End date cannot be in the future"
START_AFTER_END == "Start date must be before end date"
NO_DATA_FOUND == "No data found for the selected date range."
FETCH_FAILED == "Failed to fetch historical data"
NO_DATA_TO_EXPORT == "No data available to export"
IMAGE_LOAD_FAILED == "Failed to load the selected image."

\* Validate with the future-end check moved in front of the floor check.
Validate_FutureFirst(start, end, today) ==
    IF end > today THEN "End date cannot be in the future"
    ELSE IF start < ParseDate(EarliestDay)
         THEN "Start date cannot be earlier than EARLIEST_DATE"
    ELSE IF start > end THEN "Start date must be before end date"
    ELSE ""

\* The validation checks of handleSubmit, in the order of the code: the
\* error of the first check that fails, "" when all pass.
Validate(start, end, today) ==
    IF start < EARLIEST_DATE THEN START_TOO_EARLY
    ELSE IF end > today THEN END_IN_FUTURE
    ELSE IF start > end THEN START_AFTER_END
    ELSE ""

\* The axios.get call of handleSubmit: formattedStartDate and
\* formattedEndDate in the URL.
Request(n, start, end) ==
    [id |-> n, startDate |-> ToISODate(start), endDate |-> ToISODate(end)]

\* handleSubmit up to the await of axios.get; today is new Date().
handleSubmit(today) ==
    LET start == ParseDate(startDate)
        end == ParseDate(endDate)
        sameDay == ToISODate(start) = ToISODate(end)
        verdict == Validate(start, end, today)
    IN  /\ historicalData' = NoData
        /\ dataFrom' = << >>
        /\ selectedImage' = Null
        /\ isSameDay' = sameDay
        /\ download' = NoDownload
        /\ IF verdict # ""
           THEN /\ error' = verdict
                /\ UNCHANGED <<submits, requests>>
           ELSE /\ submits < MaxSubmits
                /\ error' = ""
                /\ submits' = submits + 1
                /\ requests' =
                       requests \cup {Request(submits + 1, start, end)}
        /\ UNCHANGED <<startDate, endDate, imageUrls, clicks, loads, loaded>>

\* FetchResolved without the check for an empty list.
FetchResolved_NoEmptyCheck(r, data) ==
    /\ r \in requests
    /\ requests' = requests \ {r}
    /\ download' = NoDownload
    /\ historicalData' = <<transformedData[data]>>
    /\ dataFrom' = <<r>>
    /\ imageUrls' = imagesOf[data]
    /\ error' = error
    /\ UNCHANGED <<startDate, endDate, isSameDay, selectedImage, submits,
                   clicks, loads, loaded>>

\* The continuation of handleSubmit when axios.get resolves with data.
FetchResolved(r, data) ==
    /\ r \in requests
    /\ requests' = requests \ {r}
    /\ download' = NoDownload
    /\ IF Len(data) = 0
       THEN /\ error' = NO_DATA_FOUND
            /\ UNCHANGED <<historicalData, dataFrom, imageUrls>>
       ELSE /\ historicalData' = <<transformedData[data]>>
            /\ dataFrom' = <<r>>
            /\ imageUrls' = imagesOf[data]
            /\ error' = error
    /\ UNCHANGED <<startDate, endDate, isSameDay, selectedImage, submits,
                   clicks, loads, loaded>>

\* The catch branch of handleSubmit: axios.get rejects.
FetchRejected(r) ==
    /\ r \in requests
    /\ requests' = requests \ {r}
    /\ error' = FETCH_FAILED
    /\ download' = NoDownload
    /\ UNCHANGED <<startDate, endDate, isSameDay, selectedImage, imageUrls,
                   historicalData, submits, dataFrom, clicks, loads, loaded>>

\* ---------------------------------------------------- handleDataPointClick
\* handleDataPointClick showing the image before its load has resolved.
handleDataPointClick_Eager(dataPoint) ==
    /\ clicks < MaxSelects
    /\ clicks' = clicks + 1
    /\ download' = NoDownload
    /\ IF dataPoint.image_url # ""
       THEN /\ loads' =
                   loads \cup {[id |-> clicks + 1, src |-> dataPoint.image_url]}
            /\ selectedImage' = dataPoint.image_url
       ELSE /\ loads' = loads
            /\ selectedImage' = Null
    /\ UNCHANGED <<startDate, endDate, error, isSameDay, imageUrls,
                   historicalData, submits, requests, dataFrom, loaded>>

\* A click on a point of a rendered chart.
handleDataPointClick(dataPoint) ==
    /\ clicks < MaxSelects
    /\ clicks' = clicks + 1
    /\ download' = NoDownload
    /\ IF dataPoint.image_url # ""
       THEN /\ loads' =
                   loads \cup {[id |-> clicks + 1, src |-> dataPoint.image_url]}
            /\ selectedImage' = selectedImage
       ELSE /\ loads' = loads
            /\ selectedImage' = Null
    /\ UNCHANGED <<startDate, endDate, error, isSameDay, imageUrls,
                   historicalData, submits, requests, dataFrom, loaded>>

\* The charts are rendered only while historicalData is present; each passes
\* the clicked point of its channel to handleDataPointClick.
ClickDataPoint ==
    /\ historicalData # NoData
    /\ \E m \in Metrics : \E i \in 1 .. Len(historicalData[1][m]) :
           handleDataPointClick(historicalData[1][m][i])

\* img.onload of a pending Image.
ImgOnLoad(l) ==
    /\ l \in loads
    /\ loads' = loads \ {l}
    /\ loaded' = loaded \cup {l.src}
    /\ selectedImage' = l.src
    /\ download' = NoDownload
    /\ UNCHANGED <<startDate, endDate, error, isSameDay, imageUrls,
                   historicalData, submits, requests, dataFrom, clicks>>

\* img.onerror of a pending Image.
ImgOnError(l) ==
    /\ l \in loads
    /\ loads' = loads \ {l}
    /\ error' = IMAGE_LOAD_FAILED
    /\ download' = NoDownload
    /\ UNCHANGED <<startDate, endDate, isSameDay, selectedImage, imageUrls,
                   historicalData, submits, requests, dataFrom, clicks,
                   loaded>>

\* onClose of the Modal and onClick of its Close button.
CloseModal ==
    /\ selectedImage # Null
    /\ selectedImage' = Null
    /\ download' = NoDownload
    /\ UNCHANGED <<startDate, endDate, error, isSameDay, imageUrls,
                   historicalData, submits, requests, dataFrom, clicks,
                   loads, loaded>>

\* ------------------------------------------------------------ handleExport
headers ==
    <<"Timestamp", "Temperature (C)", "Humidity (%)", "Pressure (hPa)",
      "Wind Max Speed (km/h)", "Wind Speed (km/h)", "Wind Direction (deg)",
      "Ambient Temperature (C)", "Ambient Humidity (%)", "Rain (mm)",
      "UV Index", "UVI", "Light Lux (lx)">>

\* channel[index]?.value followed by ?.toFixed(2): the cell is empty when
\* the channel has no entry at the index.
Cell(channel, index) ==
    IF index \in 1 .. Len(channel) THEN <<"fixed2", channel[index].value>>
    ELSE << >>

\* new Date(item.time).toISOString(): the instant, in UTC.
ISOString(t) == <<"iso", t>>

\* Rows with the wind max speed and wind speed cells exchanged.
Rows_Swapped(hd) ==
    [index \in 1 .. Len(hd.temperature) |->
        <<ISOString(hd.temperature[index].time),
          Cell(hd.temperature, index),
          Cell(hd.humidity, index),
          Cell(hd.pressure, index),
          Cell(hd.windSpeed, index),
          Cell(hd.windMaxSpeed, index),
          Cell(hd.windDirection, index),
          Cell(hd.ambientTemp, index),
          Cell(hd.ambientHumidity, index),
          Cell(hd.rain, index),
          Cell(hd.uv, index),
          Cell(hd.uvi, index),
          Cell(hd.lightLux, index)>>]

\* rows of handleExport: one per index of the temperature channel.
Rows(hd) ==
    [index \in 1 .. Len(hd.temperature) |->
        <<ISOString(hd.temperature[index].time),
          Cell(hd.temperature, index),
          Cell(hd.humidity, index),
          Cell(hd.pressure, index),
          Cell(hd.windMaxSpeed, index),
          Cell(hd.windSpeed, index),
          Cell(hd.windDirection, index),
          Cell(hd.ambientTemp, index),
          Cell(hd.ambientHumidity, index),
          Cell(hd.rain, index),
          Cell(hd.uv, index),
          Cell(hd.uvi, index),
          Cell(hd.lightLux, index)>>]

\* csvContent of handleExport, as its list of lines, each the list of the
\* cells that join(",") puts on it.
CsvContent(hd) == <<headers>> \o Rows(hd)

\* The download attribute of the link handleExport clicks.
FileName(start, end) == <<"weather_data_", start, "_to_", end, ".csv">>

handleExport ==
    /\ IF historicalData = NoData
       THEN /\ error' = NO_DATA_TO_EXPORT
            /\ download' = NoDownload
       ELSE /\ error' = error
            /\ download' = <<[name |-> FileName(startDate, endDate),
                             content |-> CsvContent(historicalData[1])]>>
    /\ UNCHANGED <<startDate, endDate, isSameDay, selectedImage, imageUrls,
                   historicalData, submits, requests, dataFrom, clicks,
                   loads, loaded>>

\* ------------------------------------------- the Solar Irradiance chart
\* The factor 0.0079 applied to a value counted in hundredths: the product is
\* counted in millionths.
LuxToIrradiance == 79

\* SolarIrradiance with the product rounded to two decimals.
SolarIrradiance_Rounded(hd) ==
    [i \in 1 .. Len(hd.lightLux) |->
        [hd.lightLux[i] EXCEPT
            !.value = ((@ * LuxToIrradiance + 5000) \div 10000) * 10000]]

\* data of the Solar Irradiance chart: historicalData.lightLux.map(item =>
\* ({...item, value: item.value * 0.0079})); the values are in millionths.
SolarIrradiance(hd) ==
    [i \in 1 .. Len(hd.lightLux) |->
        [hd.lightLux[i] EXCEPT !.value = @ * LuxToIrradiance]]

\* ---------------------------------------------------------- specifications
\* The whole page.
Next ==
    \/ \E d \in Dates : SetStartDate(d)
    \/ \E d \in Dates : SetEndDate(d)
    \/ \E today \in Instants : handleSubmit(today)
    \/ \E r \in requests : \E data \in Responses : FetchResolved(r, data)
    \/ \E r \in requests : FetchRejected(r)
    \/ ClickDataPoint
    \/ \E l \in loads : ImgOnLoad(l)
    \/ \E l \in loads : ImgOnError(l)
    \/ CloseModal
    \/ handleExport

Spec == Init /\ [][Next]_vars

\* The page while no data point is clicked: the date inputs, the fetch and
\* the export.  The steps left out write selectedImage, error, clicks, loads
\* and loaded only, and no step kept here reads any of these.
NextFetch ==
    \/ \E d \in Dates : SetStartDate(d)
    \/ \E d \in Dates : SetEndDate(d)
    \/ \E today \in Instants : handleSubmit(today)
    \/ \E r \in requests : \E data \in Responses : FetchResolved(r, data)
    \/ \E r \in requests : FetchRejected(r)
    \/ handleExport

SpecFetch == Init /\ [][NextFetch]_vars

\* The page while the date inputs keep their initial values and nothing is
\* exported: the fetch and the selection of an image.
NextSelect ==
    \/ \E today \in Instants : handleSubmit(today)
    \/ \E r \in requests : \E data \in Responses : FetchResolved(r, data)
    \/ \E r \in requests : FetchRejected(r)
    \/ ClickDataPoint
    \/ \E l \in loads : ImgOnLoad(l)
    \/ \E l \in loads : ImgOnError(l)
    \/ CloseModal

SpecSelect == Init /\ [][NextSelect]_vars

\* ------------------------------------------------------------------ claims
\* A click on a point that carries no image reference.
IsClickWithoutImage ==
    /\ historicalData # NoData
    /\ \E m \in Metrics : \E i \in 1 .. Len(historicalData[1][m]) :
           /\ historicalData[1][m][i].image_url = ""
           /\ handleDataPointClick(historicalData[1][m][i])

\* C1: once no fetch is in flight, a dataset that is stored was built from
\* the response to the most recently issued request.
C1_LatestRequestWins ==
    (requests = {} /\ dataFrom # << >>) => dataFrom[1].id = submits

\* C2: the onload of an Image created by a click that is no longer the most
\* recent one leaves selectedImage as it is.
C2_StaleLoadIgnored ==
    [][\A l \in loads :
          (l.id < clicks /\ ImgOnLoad(l)) => selectedImage' = selectedImage]_vars

\* C3: when the load of the selected image fails, the error message is set
\* and nothing is displayed.
C3_FailedLoadClears ==
    [][\A l \in loads :
          ImgOnError(l) =>
              (error' = IMAGE_LOAD_FAILED /\ selectedImage' = Null)]_vars

\* C4: an image reference is displayed only if it is the reference of a data
\* point whose load has completed with onload, and it is displayed by the
\* step that completes the load; every pending load is the load of a
\* reference, and a click on a point without a reference clears the display
\* in the same step.
C4_DisplayedOnlyAfterLoad ==
    /\ [](/\ selectedImage # Null =>
                (selectedImage \in loaded /\ selectedImage # "")
          /\ \A l \in loads : l.src # "" /\ l.src # Undefined)
    /\ [][/\ IsClickWithoutImage => selectedImage' = Null
          /\ loaded' # loaded => selectedImage' \in loaded' \ loaded]_vars

\* A load has succeeded and its image is displayed while another load is
\* still pending.
C4_Witness ==
    /\ selectedImage # Null
    /\ selectedImage \in loaded
    /\ \E l \in loads : l.src # selectedImage

\* C5: a submit at any instant gives exactly the outcome of the first check
\* that fails, the checks taken in the order floor, future, start after end;
\* a rejection sets that check's error, issues no fetch and leaves the
\* dataset absent, and an acceptance issues one fetch.
C5_ValidationOutcome ==
    [][\A today \in Instants :
          handleSubmit(today) =>
              LET start == startDate * MinutesPerDay
                  end == endDate * MinutesPerDay
                  early == start < EarliestDay * MinutesPerDay
                  future == end > today
                  after == start > end
                  rejected == early \/ future \/ after
              IN  /\ early => error' = START_TOO_EARLY
                  /\ (~early /\ future) => error' = END_IN_FUTURE
                  /\ (~early /\ ~future /\ after) => error' = START_AFTER_END
                  /\ rejected =>
                        /\ requests' = requests
                        /\ submits' = submits
                        /\ historicalData' = NoData
                  /\ ~rejected =>
                        /\ error' = ""
                        /\ submits' = submits + 1
                        /\ Cardinality(requests' \ requests) = 1]_vars

\* A submit has been rejected while the fetch issued by an earlier submit was
\* still in flight.
C5_Witness ==
    /\ error \in {START_TOO_EARLY, END_IN_FUTURE, START_AFTER_END}
    /\ historicalData = NoData
    /\ requests # {}

\* C6: the range of every fetch a submit issues has start <= end, start not
\* before EARLIEST_DATE and end not after the calendar date of the instant of
\* the submit in UTC-6.
C6_IssuedRangeValid ==
    [][\A today \in Instants :
          handleSubmit(today) =>
              \A r \in requests' \ requests :
                  /\ r.startDate <= r.endDate
                  /\ r.startDate >= EarliestDay
                  /\ r.endDate <= (today - CstBehindMinutes) \div MinutesPerDay]_vars

\* The field of a reading each channel is built from.
SourceField ==
    [temperature |-> "temperature_c", humidity |-> "humidity",
     pressure |-> "pressure", windMaxSpeed |-> "ambientweatherwindmaxspeed",
     windSpeed |-> "wind_speed", windDirection |-> "wind_direction",
     ambientTemp |-> "ambientweathertemp",
     ambientHumidity |-> "ambientweatherhumidity",
     rain |-> "ambientweatherrain", uv |-> "ambientweatheruv",
     uvi |-> "ambientweatheruvi", lightLux |-> "ambientweatherlightlux"]

\* C7: a dataset that is present comes from one non-empty reading list: each
\* of the twelve channels has the length of that list, at every index the
\* time of every channel is the time of the temperature channel, and every
\* value and image reference is the one of that list's reading at the index.
C7_ChannelsAligned ==
    historicalData # NoData =>
        \E data \in Responses :
            /\ Len(data) >= 1
            /\ DOMAIN historicalData[1] = Metrics
            /\ \A m \in Metrics :
                  /\ Len(historicalData[1][m]) = Len(data)
                  /\ \A i \in 1 .. Len(data) :
                        LET p == historicalData[1][m][i]
                        IN  /\ p.time = historicalData[1].temperature[i].time
                            /\ p.time = data[i].timestamp[1] + ViewerBehindMinutes
                            /\ p.value * 10 - data[i][SourceField[m]] \in -5 .. 5
                            /\ p.image_url \in {data[i].image_url, ""}

\* A dataset of at least two points is present.
C7_Witness ==
    /\ historicalData # NoData
    /\ Len(historicalData[1].temperature) >= 2

\* C8: a document that is offered for download has at least one data row
\* and comes from a present dataset; while no dataset is present no step
\* offers a document, and an export is then refused with its error.
C8_NoHeaderOnlyExport ==
    /\ [](download # NoDownload =>
              /\ historicalData # NoData
              /\ Len(download[1].content) >= 2)
    /\ [][historicalData = NoData =>
              /\ download' = NoDownload
              /\ handleExport => error' = NO_DATA_TO_EXPORT]_vars

\* An export was refused while a fetch was in flight, and after the dataset
\* arrived a later export offered a document.
C8_Witness ==
    /\ download # NoDownload
    /\ error = NO_DATA_TO_EXPORT

\* C9: the name of an offered file carries the range of the request whose
\* response built the exported dataset.
C9_FileNameFromFetchedRange ==
    download # NoDownload =>
        download[1].name =
            <<"weather_data_", dataFrom[1].startDate, "_to_",
              dataFrom[1].endDate, ".csv">>

\* The channels in the column order of the export.
ColumnOrder ==
    <<"temperature", "humidity", "pressure", "windMaxSpeed", "windSpeed",
      "windDirection", "ambientTemp", "ambientHumidity", "rain", "uv", "uvi",
      "lightLux">>

\* C10: an offered document has one header line and one row per index of the
\* temperature channel, in index order; every line has 13 columns: the
\* timestamp and the twelve channels in the fixed order, with no solar
\* irradiance column.
C10_CsvShape ==
    download # NoDownload =>
        LET c == download[1].content
            hd == historicalData[1]
            n == Len(hd.temperature)
        IN  /\ Len(c) = n + 1
            /\ c[1] = <<"Timestamp", "Temperature (C)", "Humidity (%)",
                        "Pressure (hPa)", "Wind Max Speed (km/h)",
                        "Wind Speed (km/h)", "Wind Direction (deg)",
                        "Ambient Temperature (C)", "Ambient Humidity (%)",
                        "Rain (mm)", "UV Index", "UVI", "Light Lux (lx)">>
            /\ \A i \in 1 .. n :
                  /\ Len(c[i + 1]) = 13
                  /\ c[i + 1][1] = <<"iso", hd.temperature[i].time>>
                  /\ \A k \in 1 .. 12 :
                        c[i + 1][k + 1] = <<"fixed2", hd[ColumnOrder[k]][i].value>>

\* A document with two data rows has been offered.
C10_Witness ==
    /\ download # NoDownload
    /\ Len(download[1].content) = 3

\* A number of millionths rounded to two decimals, half away from zero, as
\* a number of millionths.
RoundMillionthsTo2(x) ==
    IF x >= 0 THEN ((x + 5000) \div 10000) * 10000
    ELSE 0 - (((5000 - x) \div 10000) * 10000)

\* C11 as stated: every value of the Solar Irradiance chart is the lux
\* reading rounded to two decimals, times 0.0079, rounded to two decimals.
C11_IrradianceRoundedTwice ==
    \A data \in Responses :
        historicalData = <<transformedData[data]>> =>
            \A i \in 1 .. Len(data) :
                SolarIrradiance(historicalData[1])[i].value =
                    RoundMillionthsTo2(
                        ((data[i].ambientweatherlightlux + 5) \div 10) * 79)

\* C11 as amended: every value of the Solar Irradiance chart is the lux
\* reading rounded to two decimals, times 0.0079, and is not rounded again;
\* the point keeps the time and the image reference of the lux point.
C11_IrradianceFromRoundedLux ==
    \A data \in Responses :
        historicalData = <<transformedData[data]>> =>
            /\ Len(SolarIrradiance(historicalData[1])) = Len(data)
            /\ \A i \in 1 .. Len(data) :
                  LET p == SolarIrradiance(historicalData[1])[i]
                  IN  /\ p.value =
                            ((data[i].ambientweatherlightlux + 5) \div 10) * 79
                      /\ p.time = historicalData[1].lightLux[i].time
                      /\ p.image_url = historicalData[1].lightLux[i].image_url

\* The dataset holds the reading with lux 126.582: its lux value is 126.58
\* and its irradiance value 0.999982.
C11_Witness ==
    /\ historicalData # NoData
    /\ historicalData[1].lightLux[1].value = 12658
    /\ SolarIrradiance(historicalData[1])[1].value = 999982

\* The image references of the points of a dataset, in order, without the
\* empty ones.
RECURSIVE PointImages(_)
PointImages(channel) ==
    IF channel = << >> THEN << >>
    ELSE IF Head(channel).image_url = "" THEN PointImages(Tail(channel))
         ELSE <<Head(channel).image_url>> \o PointImages(Tail(channel))

\* C12: imageUrls is the list of the image references of the points of the
\* dataset that is present, and is empty while no dataset is present.
C12_TimelineOfCurrentDataset ==
    imageUrls =
        IF historicalData = NoData THEN << >>
        ELSE PointImages(historicalData[1].temperature)

\* C13: an image that is displayed is the image of a point of the dataset
\* that is present; and while no dataset is present (every pending load was
\* then started before the latest submit) the onerror of a load leaves the
\* error as the submit set it.
C13_StaleLoadAfterSubmit ==
    /\ [](selectedImage # Null =>
              /\ historicalData # NoData
              /\ \E i \in 1 .. Len(historicalData[1].temperature) :
                     historicalData[1].temperature[i].image_url = selectedImage)
    /\ [][historicalData = NoData =>
              \A l \in loads : ImgOnError(l) => error' = error]_vars

====
